---- MODULE Spec2Model ----
(***************************************************************************)
(* Dad's Command Center: the App shell, the task dashboard, the task list  *)
(* (live query + drag reorder), the task form, the API key provider with   *)
(* the settings panel, parseTaskWithAI, the Firestore service functions    *)
(* they call and the security rules of the key documents.                  *)
(*                                                                         *)
(* Spec       App start, sign-in and sign-out, tab and filter changes, the *)
(*            live query of TaskList and its errors, over a collection     *)
(*            that changes.                                                *)
(* SpecOrder  one user fills a category and drags its tasks.               *)
(* SpecQuery  the live query over the collections the writes can leave.    *)
(* SpecForm   one user fills in and submits the task form.                 *)
(* SpecAi     one user has the AI fill in the task form, and submits.      *)
(* SpecParse  calls of parseTaskWithAI.                                    *)
(* SpecKey    users sign in and out, save and delete their API key.        *)
(* SpecDelete one user deletes tasks and the stored API key.               *)
(* SpecRules  requests on the key documents decided by the security rules. *)
(* SpecList   one user creates, toggles and drags tasks, changes tab and   *)
(*            filter and signs out, while the writes succeed or fail.      *)
(* SpecItem   one user creates, toggles, edits, deletes and drags tasks    *)
(*            under one tab, while the writes succeed or fail.             *)
(* SpecText   one user submits typed and AI-filled titles and edits them.  *)
(* SpecFrame  every event that TaskList and its items see.                 *)
(*                                                                         *)
(* Event handlers run to completion (single-threaded event loop): a state  *)
(* update, the re-render and the effects it triggers are one step, but for *)
(* the dashboard's effect on the key status, which is a step of its own    *)
(* when it follows a commit made outside an event handler.                 *)
(* Promises settle in later steps; the Firestore client commits the writes *)
(* of one client in the order they were issued.                            *)
(***************************************************************************)
EXTENDS Integers, Sequences, FiniteSets, TLC

(* ------------------------------- bounds -------------------------------- *)
\* most task documents ever created in a run
MaxTasks == 3
\* most live-query subscriptions the Firestore client tracks at once
MaxSubs == 3
\* most writes in flight at once
MaxPending == 1
\* number of accounts that sign in
NumUsers == 2
\* number of the stored categories that are used by a run
NumCats == 2
\* most key operations (fetch, save, delete) in flight at once
MaxKeyOps == 2

(* --------------------------- program constants ------------------------- *)
ALL == "All"
AllCategories == <<"Wife", "Daughter", "Work", "Chores">>
TASK_CATEGORIES == {AllCategories[i] : i \in 1..4}
CATEGORY_TABS == {ALL} \cup TASK_CATEGORIES
TaskFilter == {"all", "active", "completed"}

\* the tabs a run clicks: "All" and the first NumCats stored categories
TabsUsed == {ALL} \cup {AllCategories[i] : i \in 1..(IF NumCats < 4 THEN NumCats ELSE 4)}
AllUsers == <<"u1", "u2", "u3", "u4">>
Users == {AllUsers[i] : i \in 1..(IF NumUsers < 4 THEN NumUsers ELSE 4)}

Undefined == "undefined"
Null == "null"
NoId == 0
\* the unsubscribe handle `() => {}` returned when Firestore is not initialized
NoopHandle == -1
\* Date.now(): larger than any list index
Epoch == 10

SelectCategoryError == "Select a specific category tab to add tasks."
AddTaskError == "Failed to add task. Please try again."
ConfigMissingError == "Firebase configuration is missing."
FetchKeyError == "Failed to fetch API key."
SaveKeyError == "Failed to save API key."
DeleteKeyError == "Failed to delete API key."
KeySavedMessage == "API Key saved successfully!"
KeyDeletedMessage == "API Key deleted successfully!"
ApiKeyMissingError == "API key is missing. Please configure it in User Settings."

VARIABLES
  \* firebaseService module initialisation
  config, authInit, dbInit,
  \* App
  appMounted, user, firebaseInitialized, initializationError,
  \* TaskDashboard
  selectedCategory, filter,
  \* TaskList
  tasks, isLoading, error, subHandle,
  \* TaskItem: the ids of the tasks whose item has isDeleting set
  deleting,
  \* Firestore client: registered snapshot listeners, and for each tracked
  \* subscription whether getTasksStream created it and how often its
  \* unsubscribe function has been called
  listeners, subs,
  \* Firestore: the tasks collection, the id of the next document and the
  \* client's write pipeline
  store, nextId, writes,
  \* TaskForm
  taskText, dueDate, priority, formIsLoading, formError,
  aiTaskText, isAiProcessing, aiError, aiCall,
  \* ApiKeyProvider
  userApiKey, isApiKeyLoading, apiKeyError,
  \* Firestore: the user_gemini_keys collection and the key operations in flight
  keyStore, keyOps,
  \* TaskDashboard: the user settings panel
  showUserSettings, apiKeyInputValue, isSavingKey, isDeletingKey,
  keyOpError, keyOpSuccessMessage, keyEffectPending,
  \* aiService: the call of parseTaskWithAI under way or settled
  parse,
  \* Firestore server: the documents of user_gemini_keys as the security rules
  \* let requests shape them, and the last request the rules decided
  keyDocs, access,
  \* the event handled by the last step
  ev

appVars == <<config, authInit, dbInit, appMounted, user, firebaseInitialized, initializationError>>
dashVars == <<selectedCategory, filter>>
listVars == <<tasks, isLoading, error, subHandle, deleting>>
subVars == <<listeners, subs>>
storeVars == <<store, nextId>>
formVars == <<taskText, dueDate, priority, formIsLoading, formError, aiTaskText, isAiProcessing, aiError, aiCall>>
provVars == <<userApiKey, isApiKeyLoading, apiKeyError, keyStore, keyOps>>
panelVars == <<showUserSettings, apiKeyInputValue, isSavingKey, isDeletingKey,
               keyOpError, keyOpSuccessMessage, keyEffectPending>>
rulesVars == <<keyDocs, access>>
ctxVars == <<provVars, panelVars, parse, rulesVars>>
vars == <<appVars, dashVars, listVars, subVars, storeVars, writes, formVars, ctxVars, ev>>

\* op names the handler, a and b are its arguments, h the handler a settled
\* promise belonged to
Ev(op, a, b) == [op |-> op, a |-> a, b |-> b, h |-> ""]

(* ------------------------------ strings -------------------------------- *)
\* a string is a sequence of characters; " " is the whitespace character
IsSpace(c) == c = " "

RECURSIVE TrimStart(_)
TrimStart(s) == IF s # <<>> /\ IsSpace(Head(s)) THEN TrimStart(Tail(s)) ELSE s

RECURSIVE TrimEnd(_)
TrimEnd(s) == IF s # <<>> /\ IsSpace(s[Len(s)]) THEN TrimEnd(SubSeq(s, 1, Len(s) - 1)) ELSE s

\* a mutation of trim: white space at the end is kept
TrimStartOnly(s) == TrimStart(s)

\* String.prototype.trim
Trim(s) == TrimEnd(TrimStart(s))

(* --------------------------- Firestore query --------------------------- *)
\* a mutation of the query: the where clauses on completed are missing
MatchesAnyState(d, uid, category, flt) ==
  /\ d.userId = uid
  /\ (category # ALL => d.category = category)

\* where('userId','==',userId), where('category','==',category) unless ALL,
\* where('completed','==',...) for the narrowing filters
Matches(d, uid, category, flt) ==
  /\ d.userId = uid
  /\ (category # ALL => d.category = category)
  /\ (flt = "active" => d.completed = FALSE)
  /\ (flt = "completed" => d.completed = TRUE)

\* orderBy('position','asc'); equal positions are ordered by document id
Before(d, e) == d.position < e.position \/ (d.position = e.position /\ d.id <= e.id)

RECURSIVE OrderByPosition(_, _)
OrderByPosition(st, ids) ==
  IF ids = {} THEN <<>>
  ELSE LET m == CHOOSE x \in ids : \A y \in ids : Before(st[x], st[y])
       IN <<st[m]>> \o OrderByPosition(st, ids \ {m})

\* querySnapshot.docs.map(doc => ({id: doc.id, ...doc.data()}))
QueryDocs(st, uid, category, flt) ==
  OrderByPosition(st, {i \in DOMAIN st : Matches(st[i], uid, category, flt)})

(* ------------------------------ list helpers --------------------------- *)
\* Array.prototype.findIndex, zero-based, -1 when absent
findIndex(arr, id) ==
  IF \E k \in 1..Len(arr) : arr[k].id = id
  THEN (CHOOSE k \in 1..Len(arr) : arr[k].id = id /\ \A j \in 1..(k - 1) : arr[j].id # id) - 1
  ELSE -1

\* splice(start, 1): remove one element at zero-based index start
\* (a negative start counts from the end)
SpliceOut(arr, start) ==
  LET s == IF start < 0 THEN (IF Len(arr) + start < 0 THEN 0 ELSE Len(arr) + start) ELSE start
  IN IF s >= Len(arr) THEN arr
     ELSE SubSeq(arr, 1, s) \o SubSeq(arr, s + 2, Len(arr))

\* splice(start, 0, x): insert x at zero-based index start
SpliceIn(arr, start, x) ==
  LET s0 == IF start < 0 THEN (IF Len(arr) + start < 0 THEN 0 ELSE Len(arr) + start) ELSE start
      s == IF s0 > Len(arr) THEN Len(arr) ELSE s0
  IN SubSeq(arr, 1, s) \o <<x>> \o SubSeq(arr, s + 1, Len(arr))

\* a mutation of arrayMove: the two items trade places
arrayMoveSwap(arr, from, to) ==
  [k \in 1..Len(arr) |->
     IF k = from + 1 THEN arr[to + 1] ELSE IF k = to + 1 THEN arr[from + 1] ELSE arr[k]]

\* @dnd-kit/sortable arrayMove:
\*   newArray.splice(to < 0 ? newArray.length + to : to, 0, newArray.splice(from, 1)[0])
arrayMove(arr, from, to) ==
  LET f == IF from < 0 THEN Len(arr) + from ELSE from
      rest == SpliceOut(arr, from)
  IN SpliceIn(rest, IF to < 0 THEN Len(arr) + to ELSE to, arr[f + 1])

\* updateTaskOrder: tasks.forEach((task, index) => batch.update(ref(task.id), {position: index}))
BatchUpdates(arr) == [k \in 1..Len(arr) |-> [id |-> arr[k].id, position |-> k - 1]]


(* ------------------------------ Firestore ------------------------------ *)
\* a write handed to the Firestore client; h names the handler that issued it
\* and live tells whether the component that awaits it is still mounted
Write(op, h, id, completed, text, updates, doc) ==
  [op |-> op, h |-> h, id |-> id, completed |-> completed, text |-> text,
   updates |-> updates, doc |-> doc, live |-> TRUE]

\* the dashboard unmounted: the components awaiting the writes are gone
Orphaned(ws) == [k \in 1..Len(ws) |-> [ws[k] EXCEPT !.live = FALSE]]

NoDoc == [userId |-> Null, category |-> ALL, priority |-> "Medium", dueDate |-> <<>>]

\* addTask: addDoc(collection(db,'tasks'), {userId, text, category, completed: false,
\*   priority: details.priority || 'Medium', dueDate: ..., position: Date.now()})
addTask(userId, text, category, details) ==
  Write("add", "handleSubmit", NoId, FALSE, text, <<>>,
        [userId |-> userId, category |-> category,
         priority |-> IF details.priority = "" THEN "Medium" ELSE details.priority,
         dueDate |-> details.dueDate])

\* updateTask(taskId, {completed})
updateTaskCompleted(h, id, completed) == Write("completed", h, id, completed, <<>>, <<>>, NoDoc)

\* updateTask(taskId, {text})
updateTaskText(h, id, text) == Write("text", h, id, FALSE, text, <<>>, NoDoc)

\* deleteTask(taskId)
deleteTask(h, id) == Write("delete", h, id, FALSE, <<>>, <<>>, NoDoc)

\* updateTaskOrder(tasks): one batch holding an update of position per task
updateTaskOrder(h, arr) == Write("batch", h, NoId, FALSE, <<>>, BatchUpdates(arr), NoDoc)

\* the server accepts the write: updateDoc and batch.update need the document to exist
Accepts(st, w) ==
  CASE w.op = "add" -> TRUE
    [] w.op = "delete" -> TRUE
    [] w.op \in {"completed", "text"} -> w.id \in DOMAIN st
    [] w.op = "batch" -> \A k \in 1..Len(w.updates) : w.updates[k].id \in DOMAIN st

\* a mutation of the batched update: it writes the completion flag as well
BatchUpdateCompleted(d, u) == [d EXCEPT !.position = u.position, !.completed = FALSE]

\* batch.update(taskRef, { position: index }) applied to the document d
BatchUpdate(d, u) == [d EXCEPT !.position = u.position]

\* the tasks collection after the write is applied
Apply(st, w, newId) ==
  CASE w.op = "add" ->
         [i \in DOMAIN st \cup {newId} |->
            IF i = newId
            THEN [id |-> newId, userId |-> w.doc.userId, text |-> w.text,
                  category |-> w.doc.category, completed |-> FALSE,
                  priority |-> w.doc.priority, dueDate |-> w.doc.dueDate,
                  position |-> Epoch + newId]
            ELSE st[i]]
    [] w.op = "delete" -> [i \in DOMAIN st \ {w.id} |-> st[i]]
    [] w.op = "completed" -> [st EXCEPT ![w.id].completed = w.completed]
    [] w.op = "text" -> [st EXCEPT ![w.id].text = w.text]
    [] w.op = "batch" ->
         [i \in DOMAIN st |->
            IF \E k \in 1..Len(w.updates) : w.updates[k].id = i
            THEN BatchUpdate(st[i], w.updates[CHOOSE k \in 1..Len(w.updates) : w.updates[k].id = i])
            ELSE st[i]]

\* handlers that await the write inside try/catch
Catches(h) == h \in {"handleSubmit", "handleToggleComplete", "handleDelete"}

\* a mutation of the live query: a change of the collection is pushed to no one
NotifyNoOne(ls, old, new) == ls

\* listeners whose query result differs get a new snapshot
Notify(ls, old, new) ==
  {[l EXCEPT !.pend = l.pend \/ QueryDocs(old, l.uid, l.category, l.filter)
                                 # QueryDocs(new, l.uid, l.category, l.filter)] : l \in ls}

(* ------------------------------- TaskList ------------------------------ *)
Mounted == user \in Users

\* a mutation of the render: the list is rendered while loading too
DisplayedWhileLoading == Mounted /\ error = Null /\ tasks # <<>>

\* the list with its TaskItems is rendered
Displayed == Mounted /\ ~isLoading /\ error = Null /\ tasks # <<>>

\* the empty view is rendered
EmptyView == Mounted /\ ~isLoading /\ error = Null /\ tasks = <<>>

\* a mutation of the effect cleanup: the listener is left registered
Leaked(ls, h) == ls

\* the effect cleanup `if (unsubscribe) unsubscribe()`: the listener of the
\* subscription is removed from the registry
Unsubscribed(ls, h) == {l \in ls : l.id # h}

\* the cleanup called the unsubscribe function h
CountUnsub(sb, h) == IF h > 0 THEN [sb EXCEPT ![h].unsubCalls = @ + 1] ELSE sb

\* identifiers free for a new subscription: not registered, and not the one
\* being replaced
FreeSubIds(ls, prev) == {i \in 1..MaxSubs : i # prev /\ \A l \in ls : l.id # i}

NewSubId(ls, prev) == CHOOSE i \in FreeSubIds(ls, prev) : \A j \in FreeSubIds(ls, prev) : i <= j

\* a mutation of the effect: it empties the list before it subscribes again
ListCleared == <<>>

\* the list while the effect subscribes again: the effect sets isLoading and
\* error and leaves the tasks of the previous subscription in place
ListOnResubscribe == tasks

\* the TaskList effect for (user, selectedCategory, filter): the cleanup of the
\* previous run (when there was one) and the new call of getTasksStream
TaskListEffect(uid, category, flt, prev) ==
  LET ls == IF prev # NoId THEN Unsubscribed(listeners, prev) ELSE listeners
      sb == IF prev # NoId THEN CountUnsub(subs, prev) ELSE subs
  IN IF ~dbInit
     THEN \* getTasksStream: callback([]) and a no-op unsubscribe
          /\ tasks' = <<>>
          /\ isLoading' = FALSE
          /\ error' = Null
          /\ subHandle' = NoopHandle
          /\ deleting' = {}
          /\ listeners' = ls
          /\ subs' = sb
     ELSE /\ FreeSubIds(ls, prev) # {}
          /\ LET id == NewSubId(ls, prev)
             IN /\ subHandle' = id
                /\ listeners' = ls \cup {[id |-> id, uid |-> uid, category |-> category,
                                          filter |-> flt, pend |-> TRUE]}
                /\ subs' = [sb EXCEPT ![id] = [created |-> TRUE, unsubCalls |-> 0]]
          /\ tasks' = ListOnResubscribe
          /\ isLoading' = TRUE
          /\ error' = Null
          /\ deleting' = {}

\* a mutation of the dependency array: filter is missing from it
DepsChangedNoFilter(uid, category, flt) == <<category, uid>> # <<selectedCategory, user>>

\* the dependency array [selectedCategory, filter, user] differs from the last render
DepsChanged(uid, category, flt) == <<category, flt, uid>> # <<selectedCategory, filter, user>>

\* TaskList unmounts: the cleanup runs and the component state is gone
TaskListUnmount ==
  /\ listeners' = (IF subHandle # NoId THEN Unsubscribed(listeners, subHandle) ELSE listeners)
  /\ subs' = (IF subHandle # NoId THEN CountUnsub(subs, subHandle) ELSE subs)
  /\ tasks' = <<>>
  /\ isLoading' = TRUE
  /\ error' = Null
  /\ subHandle' = NoId
  /\ deleting' = {}

\* the callback given to getTasksStream; state updates of an unmounted
\* component are dropped
Callback(fetchedTasks) ==
  IF Mounted
  THEN /\ tasks' = fetchedTasks
       /\ isLoading' = FALSE
       /\ error' = Null
       /\ subHandle' = subHandle
       /\ deleting' = {i \in deleting : \E k \in 1..Len(fetchedTasks) : fetchedTasks[k].id = i}
  ELSE UNCHANGED listVars

\* a mutation of the error handler of onSnapshot: the callback is not called
onSnapshotErrorSilent == UNCHANGED listVars

\* the error handler of onSnapshot: callback([])
onSnapshotError == Callback(<<>>)

\* TaskForm initial state (useState defaults)
FormReset ==
  /\ taskText' = <<>>
  /\ dueDate' = <<>>
  /\ priority' = "Medium"
  /\ formIsLoading' = FALSE
  /\ formError' = Null
  /\ aiTaskText' = <<>>
  /\ isAiProcessing' = FALSE
  /\ aiError' = Null
  /\ aiCall' = aiCall


(* ---------------------------- ApiKeyContext ---------------------------- *)
\* null where a key is expected: keys are sequences of characters, and null is
\* the sequence of the one element that is no character
NoKey == <<Null>>

\* no user has stored a key
NoKeys == [u \in Users |-> NoKey]

\* a call of getUserApiKey, saveUserApiKey or deleteUserApiKey in flight: live
\* tells whether the dashboard that awaits it is still mounted, alone whether
\* it has been the only one in flight since it started
KeyOp(op, uid, key, alone) == [op |-> op, uid |-> uid, key |-> key, live |-> TRUE, alone |-> alone]

\* the operations in flight once another one starts or settles
Overlapped(ops) == [k \in 1..Len(ops) |-> [ops[k] EXCEPT !.alone = FALSE]]

\* the operations in flight once the dashboard has unmounted
Abandoned(ops) == [k \in 1..Len(ops) |-> [ops[k] EXCEPT !.live = FALSE]]

\* the sequence without its element i
Without(ops, i) == SubSeq(ops, 1, i - 1) \o SubSeq(ops, i + 1, Len(ops))

\* the dependencies [userApiKey, isGlobalApiKeyLoading] of the dashboard's
\* effect changed in this commit
KeyStatusChanged == <<userApiKey', isApiKeyLoading'>> # <<userApiKey, isApiKeyLoading>>

\* whether that effect is left to run after the commit: it is, when it has
\* something to clear
KeyEffectDue ==
  keyEffectPending' = (/\ user \in Users 
                       /\ KeyStatusChanged
                       /\ (keyOpError' # Null \/ keyOpSuccessMessage' # Null))

\* TaskDashboard's settings state (useState defaults)
PanelReset ==
  /\ showUserSettings' = FALSE
  /\ apiKeyInputValue' = <<>>
  /\ isSavingKey' = FALSE
  /\ isDeletingKey' = FALSE
  /\ keyOpError' = Null
  /\ keyOpSuccessMessage' = Null
  /\ keyEffectPending' = FALSE

\* the key the provider holds once its userId is null: setUserApiKey(null)
SignedOutKeyKept(key) == key
SignedOutKey(key) == NoKey

\* ApiKeyProvider's effect for the userId u: fetchUserApiKeyState(u) up to its
\* await, or the reset when there is no user
ProviderEffect(u) ==
  /\ IF u \in Users
     THEN /\ Len(keyOps) < MaxKeyOps
          /\ isApiKeyLoading' = TRUE
          /\ apiKeyError' = Null
          /\ userApiKey' = userApiKey
          /\ keyOps' = Append(Overlapped(keyOps), KeyOp("fetch", u, NoKey, keyOps = <<>>))
     ELSE /\ userApiKey' = SignedOutKey(userApiKey)
          /\ isApiKeyLoading' = FALSE
          /\ apiKeyError' = Null
          /\ keyOps' = Abandoned(keyOps)
  /\ keyStore' = keyStore

(* --------------------------------- App --------------------------------- *)
\* what App renders
Screen ==
  IF ~firebaseInitialized \/ user = Undefined
  THEN (IF initializationError # Null THEN "initError" ELSE "spinner")
  ELSE (IF user = Null THEN "login" ELSE "dashboard")

\* App's mount effect
AppEffect ==
  /\ ~appMounted
  /\ appMounted' = TRUE
  /\ IF config = "missing"
     THEN /\ initializationError' = ConfigMissingError
          /\ firebaseInitialized' = TRUE
          /\ user' = Null
     ELSE IF ~authInit
     THEN \* onAuthUserChanged: callback(null) when auth is not initialized
          /\ user' = Null
          /\ firebaseInitialized' = TRUE
          /\ initializationError' = Null
     ELSE UNCHANGED <<user, firebaseInitialized, initializationError>>
  /\ IF config = "missing" \/ ~authInit
     THEN \* App renders ApiKeyProvider with userId null
          ProviderEffect(Null)
     ELSE UNCHANGED provVars
  /\ ev' = Ev("AppEffect", 0, 0)
  /\ UNCHANGED <<parse, rulesVars>>
  /\ UNCHANGED <<config, authInit, dbInit, dashVars, listVars, subVars, storeVars,
                 writes, formVars, panelVars>>

\* the callback App gave to onAuthStateChanged, called with the user u (or null):
\* TaskDashboard mounts when a user appears, unmounts when the user becomes null,
\* and re-renders TaskList with the new user prop otherwise
AuthStateChanged(u) ==
  /\ appMounted /\ config = "ok" /\ authInit
  /\ u # user
  /\ user' = u
  /\ firebaseInitialized' = TRUE
  /\ initializationError' = Null
  /\ ProviderEffect(u)
  /\ IF u \in Users /\ user \notin Users
     THEN /\ selectedCategory' = ALL
          /\ filter' = "all"
          /\ FormReset
          /\ PanelReset
          /\ TaskListEffect(u, ALL, "all", NoId)
     ELSE IF u \in Users
     THEN /\ UNCHANGED <<dashVars, formVars, showUserSettings, apiKeyInputValue,
                         isSavingKey, isDeletingKey, keyOpError, keyOpSuccessMessage>>
          /\ KeyEffectDue
          /\ IF DepsChanged(u, selectedCategory, filter)
             THEN TaskListEffect(u, selectedCategory, filter, subHandle)
             ELSE UNCHANGED <<listVars, subVars>>
     ELSE IF user \in Users
     THEN /\ selectedCategory' = ALL
          /\ filter' = "all"
          /\ FormReset
          /\ PanelReset
          /\ TaskListUnmount
     ELSE UNCHANGED <<dashVars, formVars, listVars, subVars, panelVars>>
  /\ writes' = (IF u \notin Users THEN Orphaned(writes) ELSE writes)
  /\ ev' = Ev("AuthStateChanged", 0, 0)
  /\ UNCHANGED <<parse, rulesVars>>
  /\ UNCHANGED <<config, authInit, dbInit, appMounted, storeVars>>

(* ----------------------------- TaskDashboard --------------------------- *)
\* CategoryTabs onClick: setSelectedCategory(category); TaskList's effect runs
\* again when the value changed
SelectCategory(c) ==
  /\ Screen = "dashboard"
  /\ selectedCategory' = c
  /\ IF DepsChanged(user, c, filter)
     THEN TaskListEffect(user, c, filter, subHandle)
     ELSE UNCHANGED <<listVars, subVars>>
  /\ ev' = Ev("SelectCategory", 0, 0)
  /\ UNCHANGED <<appVars, filter, storeVars, writes, formVars, ctxVars>>

\* filter buttons onClick: setFilter(f)
SetFilter(f) ==
  /\ Screen = "dashboard"
  /\ filter' = f
  /\ IF DepsChanged(user, selectedCategory, f)
     THEN TaskListEffect(user, selectedCategory, f, subHandle)
     ELSE UNCHANGED <<listVars, subVars>>
  /\ ev' = Ev("SetFilter", 0, 0)
  /\ UNCHANGED <<appVars, selectedCategory, storeVars, writes, formVars, ctxVars>>

(* ------------------------------- TaskList ------------------------------ *)
\* onSnapshot next: the listener l receives the current query result
Snapshot(l) ==
  /\ l \in listeners /\ l.pend
  /\ Callback(QueryDocs(store, l.uid, l.category, l.filter))
  /\ listeners' = (listeners \ {l}) \cup {[l EXCEPT !.pend = FALSE]}
  /\ ev' = Ev("Snapshot", l.id, 0)
  /\ UNCHANGED <<appVars, dashVars, subs, storeVars, writes,
                 formVars, ctxVars>>

\* onSnapshot error: callback([]); Firestore drops a listener that failed
SnapshotError(l) ==
  /\ l \in listeners
  /\ onSnapshotError
  /\ listeners' = listeners \ {l}
  /\ ev' = Ev("SnapshotError", l.id, 0)
  /\ UNCHANGED <<appVars, dashVars, subs, storeVars, writes,
                 formVars, ctxVars>>

\* a mutation of the guard of handleDragEnd: a drop on the dragged item reorders too
ShouldReorderOnSelf(active, over) == over # NoId

\* `over && active.id !== over.id`
ShouldReorder(active, over) == over # NoId /\ active # over

\* handleDragEnd with event {active: {id: active}, over: over = NoId ? null : {id: over}}
handleDragEnd(active, over) ==
  /\ Displayed
  /\ \E k \in 1..Len(tasks) : tasks[k].id = active
  /\ over = NoId \/ \E k \in 1..Len(tasks) : tasks[k].id = over
  /\ IF ShouldReorder(active, over)
     THEN LET oldIndex == findIndex(tasks, active)
              newIndex == findIndex(tasks, over)
              reorderedTasks == arrayMove(tasks, oldIndex, newIndex)
              updatedTasksForFirebase ==
                [k \in 1..Len(reorderedTasks) |-> [reorderedTasks[k] EXCEPT !.position = k - 1]]
          IN /\ Len(writes) < MaxPending
             /\ writes' = Append(writes, updateTaskOrder("handleDragEnd", updatedTasksForFirebase))
             /\ tasks' = reorderedTasks
     ELSE UNCHANGED <<writes, tasks>>
  /\ ev' = Ev("handleDragEnd", active, over)
  /\ UNCHANGED <<appVars, dashVars, isLoading, error, subHandle, deleting, subVars,
                 storeVars, formVars, ctxVars>>

(* ------------------------------- TaskItem ------------------------------ *)
\* handleToggleComplete of the item at index k (one-based)
handleToggleComplete(k) ==
  /\ Displayed /\ k \in 1..Len(tasks)
  /\ Len(writes) < MaxPending
  /\ writes' = Append(writes, updateTaskCompleted("handleToggleComplete", tasks[k].id,
                                                  ~tasks[k].completed))
  /\ ev' = Ev("handleToggleComplete", tasks[k].id, 0)
  /\ UNCHANGED <<appVars, dashVars, listVars, subVars, storeVars, formVars, ctxVars>>

\* handleDelete of the item at index k; confirmed is the answer to window.confirm
\* the answer to window.confirm lets the delete go on
DeleteAnyway(isConfirmed) == TRUE
Confirmed(isConfirmed) == isConfirmed

\* handleDelete up to its await, for a click on the delete button of the k-th
\* item (disabled while the item is deleting) and the user's answer to the
\* confirmation prompt
handleDelete(k, confirmed) ==
  /\ Displayed /\ k \in 1..Len(tasks)
  /\ tasks[k].id \notin deleting
  /\ IF Confirmed(confirmed)
     THEN /\ Len(writes) < MaxPending
          /\ deleting' = deleting \cup {tasks[k].id}
          /\ writes' = Append(writes, deleteTask("handleDelete", tasks[k].id))
     ELSE UNCHANGED <<writes, deleting>>
  /\ ev' = Ev("handleDelete", tasks[k].id, IF confirmed THEN 1 ELSE 0)
  /\ UNCHANGED <<appVars, dashVars, tasks, isLoading, error, subHandle, subVars, storeVars,
                 formVars, ctxVars>>

\* handleSaveEdit of the item at index k with editText in the input
handleSaveEdit(k, editText) ==
  /\ Displayed /\ k \in 1..Len(tasks)
  /\ IF Trim(editText) = <<>> \/ Trim(editText) = tasks[k].text
     THEN UNCHANGED writes
     ELSE /\ Len(writes) < MaxPending
          /\ writes' = Append(writes, updateTaskText("handleSaveEdit", tasks[k].id, Trim(editText)))
  /\ ev' = Ev("handleSaveEdit", tasks[k].id, 0)
  /\ UNCHANGED <<appVars, dashVars, listVars, subVars, storeVars, formVars, ctxVars>>


(* ------------------------------- TaskForm ------------------------------ *)
canAdd == selectedCategory # ALL

Digits == {"0", "1", "2", "3", "4", "5", "6", "7", "8", "9"}

\* /^\d{4}-\d{2}-\d{2}$/.test(d)
IsYMD(d) ==
  /\ Len(d) = 10
  /\ \A k \in {1, 2, 3, 4, 6, 7, 9, 10} : d[k] \in Digits
  /\ d[5] = "-" /\ d[8] = "-"

\* a mutation of the submit guard: the title is not trimmed before the test
IsBlankUntrimmed(text) == text = <<>>

\* !taskText.trim()
IsBlank(text) == Trim(text) = <<>>

\* a mutation of the category guard: every tab may add
CannotAddNever(category) == FALSE

\* !canAdd as tested by handleSubmit
CannotAdd(category) == category = ALL

\* documents created or about to be created
Created == (nextId - 1) + Cardinality({k \in 1..Len(writes) : writes[k].op = "add"})

\* onChange of the title input
SetTaskText(t) ==
  /\ Screen = "dashboard"
  /\ taskText' = t
  /\ ev' = Ev("onChange", 0, 0)
  /\ UNCHANGED <<appVars, dashVars, listVars, subVars, storeVars, writes, ctxVars,
                 dueDate, priority, formIsLoading, formError, aiTaskText, isAiProcessing,
                 aiError, aiCall>>

\* onChange of the due date input
SetDueDate(d) ==
  /\ Screen = "dashboard"
  /\ dueDate' = d
  /\ ev' = Ev("onChange", 0, 0)
  /\ UNCHANGED <<appVars, dashVars, listVars, subVars, storeVars, writes, ctxVars,
                 taskText, priority, formIsLoading, formError, aiTaskText, isAiProcessing,
                 aiError, aiCall>>

\* onChange of the priority select
SetPriority(p) ==
  /\ Screen = "dashboard"
  /\ priority' = p
  /\ ev' = Ev("onChange", 0, 0)
  /\ UNCHANGED <<appVars, dashVars, listVars, subVars, storeVars, writes, ctxVars,
                 taskText, dueDate, formIsLoading, formError, aiTaskText, isAiProcessing,
                 aiError, aiCall>>

\* onChange of the AI textarea
SetAiTaskText(t) ==
  /\ Screen = "dashboard"
  /\ aiTaskText' = t
  /\ ev' = Ev("onChange", 0, 0)
  /\ UNCHANGED <<appVars, dashVars, listVars, subVars, storeVars, writes, ctxVars,
                 taskText, dueDate, priority, formIsLoading, formError, isAiProcessing,
                 aiError, aiCall>>

\* the body of handleSubmit when the title input holds text
Submit(text) ==
  /\ Screen = "dashboard"
  /\ IF IsBlank(text)
     THEN UNCHANGED <<formIsLoading, formError, writes>>
     ELSE IF CannotAdd(selectedCategory)
     THEN /\ formError' = SelectCategoryError
          /\ UNCHANGED <<formIsLoading, writes>>
     ELSE IF ~dbInit
     THEN \* addTask throws "Firestore not initialized.": catch and finally run
          /\ formError' = AddTaskError
          /\ formIsLoading' = FALSE
          /\ UNCHANGED writes
     ELSE /\ Len(writes) < MaxPending
          /\ Created < MaxTasks
          /\ formIsLoading' = TRUE
          /\ formError' = Null
          /\ writes' = Append(writes, addTask(user, Trim(text), selectedCategory,
                                              [dueDate |-> dueDate, priority |-> priority]))
  /\ ev' = Ev("handleSubmit", 0, 0)
  /\ UNCHANGED <<appVars, dashVars, listVars, subVars, storeVars, ctxVars,
                 dueDate, priority, aiTaskText, isAiProcessing, aiError, aiCall>>

\* handleSubmit, for a submit event dispatched on the form
handleSubmit == Submit(taskText) /\ taskText' = taskText

\* the user types the title t and submits it: SetTaskText(t) followed at once
\* by handleSubmit (the title input is read by nothing but the form)
SubmitTask(t) == Submit(t) /\ taskText' = t


\* in-flight calls of parseTaskWithAI a run allows at once
MaxAiCalls == 1

AiFailedPrefix == "AI processing failed: "

\* the task text handleAiProcessClick builds from the parsed data
combinedTaskText(parsedData) ==
  LET t1 == parsedData.title
      t2 == IF parsedData.description # <<>>
            THEN t1 \o (IF t1 # <<>> THEN <<" ", "-", " ">> ELSE <<>>) \o parsedData.description
            ELSE t1
  IN IF parsedData.category # ""
     THEN t2 \o <<" ", "(Category suggestion: ", parsedData.category, ")">>
     ELSE t2

\* !userApiKey
KeyMissingNever(k) == FALSE
KeyMissing(k) == k = NoKey \/ k = <<>>

\* handleAiProcessClick, for a click event dispatched on the AI button
handleAiProcessClick ==
  /\ Screen = "dashboard"
  /\ IF IsBlank(aiTaskText)
     THEN UNCHANGED <<isAiProcessing, aiError, formError, aiCall>>
     ELSE IF KeyMissing(userApiKey)
     THEN /\ aiError' = ApiKeyMissingError
          /\ UNCHANGED <<isAiProcessing, formError, aiCall>>
     ELSE /\ aiCall < MaxAiCalls
          /\ isAiProcessing' = TRUE
          /\ aiError' = Null
          /\ formError' = Null
          /\ aiCall' = aiCall + 1
  /\ ev' = Ev("handleAiProcessClick", 0, 0)
  /\ UNCHANGED <<appVars, dashVars, listVars, subVars, storeVars, writes, ctxVars,
                 taskText, dueDate, priority, formIsLoading, aiTaskText>>

\* parseTaskWithAI resolves with parsedData: the rest of the try block and finally
AiResolved(parsedData) ==
  /\ aiCall > 0
  /\ aiCall' = aiCall - 1
  /\ taskText' = combinedTaskText(parsedData)
  /\ dueDate' = (IF parsedData.dueDate # <<>> /\ IsYMD(parsedData.dueDate)
                 THEN parsedData.dueDate ELSE dueDate)
  /\ aiTaskText' = <<>>
  /\ isAiProcessing' = FALSE
  /\ ev' = Ev("AiResolved", 0, 0)
  /\ UNCHANGED <<appVars, dashVars, listVars, subVars, storeVars, writes, ctxVars,
                 priority, formIsLoading, formError, aiError>>

\* parseTaskWithAI rejects with an Error whose message is msg: catch and finally
AiRejected(msg) ==
  /\ aiCall > 0
  /\ aiCall' = aiCall - 1
  /\ aiError' = <<AiFailedPrefix, msg>>
  /\ isAiProcessing' = FALSE
  /\ ev' = Ev("AiRejected", 0, 0)
  /\ UNCHANGED <<appVars, dashVars, listVars, subVars, storeVars, writes, ctxVars,
                 taskText, dueDate, priority, formIsLoading, formError, aiTaskText>>

(* --------------------------- write settlement -------------------------- *)
\* the finally block of handleDelete, setIsDeleting(false), once the write w
\* has settled while rest are still in flight: it acts on the item that issued
\* w, which is the mounted one unless a later delete of the same task is in flight
DeletingAfter(w, rest) ==
  IF /\ w.h = "handleDelete" /\ w.live
     /\ ~\E k \in 1..Len(rest) : rest[k].h = "handleDelete" /\ rest[k].id = w.id
  THEN deleting \ {w.id}
  ELSE deleting

\* the oldest write in flight commits; the promise of its handler resolves
CommitWrite ==
  /\ writes # <<>>
  /\ LET w == Head(writes)
         st == Apply(store, w, nextId)
     IN /\ Accepts(store, w)
        /\ store' = st
        /\ nextId' = (IF w.op = "add" THEN nextId + 1 ELSE nextId)
        /\ listeners' = Notify(listeners, store, st)
        /\ IF w.h = "handleSubmit" /\ w.live
           THEN /\ taskText' = <<>>
                /\ dueDate' = <<>>
                /\ priority' = "Medium"
                /\ formIsLoading' = FALSE
           ELSE UNCHANGED <<taskText, dueDate, priority, formIsLoading>>
  /\ writes' = Tail(writes)
  /\ deleting' = DeletingAfter(Head(writes), Tail(writes))
  /\ ev' = Ev("CommitWrite", 0, 0)
  /\ UNCHANGED <<appVars, dashVars, tasks, isLoading, error, subHandle, subs, ctxVars,
                 formError, aiTaskText, isAiProcessing, aiError, aiCall>>

\* a mutation of the failure path: a failed reorder puts the list back in the
\* order of the position fields of its records
ListRolledBack(w) ==
  IF w.op = "batch" THEN OrderByPosition(tasks, 1..Len(tasks)) ELSE tasks

\* the in-memory list once the write w has failed: the catch blocks of the
\* handlers log and set no list state, and handleDragEnd has no catch
ListAfterFailure(w) == tasks

\* the oldest write in flight fails (network, permission, missing document):
\* the promise rejects into the catch of its handler when it has one (a = 1),
\* and is an unhandled rejection otherwise (a = 0)
RejectWrite ==
  /\ writes # <<>>
  /\ LET w == Head(writes)
     IN /\ IF w.h = "handleSubmit" /\ w.live
           THEN /\ formError' = AddTaskError
                /\ formIsLoading' = FALSE
           ELSE UNCHANGED <<formError, formIsLoading>>
        /\ ev' = [op |-> "RejectWrite", a |-> (IF Catches(w.h) THEN 1 ELSE 0), b |-> 0, h |-> w.h]
  /\ writes' = Tail(writes)
  /\ deleting' = DeletingAfter(Head(writes), Tail(writes))
  /\ tasks' = ListAfterFailure(Head(writes))
  /\ UNCHANGED <<appVars, dashVars, isLoading, error, subHandle, subVars, storeVars,
                 ctxVars,
                 taskText, dueDate, priority, aiTaskText, isAiProcessing, aiError, aiCall>>

(* ------------------------------ aiService ------------------------------ *)
MissingKeyError == "Gemini API key is missing. Please configure it in settings to use AI features."
SimulatedError == "Simulated AI processing error."
ParseFailedError == "Failed to parse task with AI."

\* an absent ParsedTaskData
NoData == [title |-> <<>>, description |-> <<>>, category |-> "", dueDate |-> <<>>]

\* no call of parseTaskWithAI has been made
ParseIdle ==
  [status |-> "idle", apiKey |-> <<>>, input |-> <<>>, reply |-> "", requested |-> FALSE,
   result |-> NoData, error |-> ""]

\* String.prototype.toLowerCase, over the words the inputs are made of
LowerCase(w) ==
  CASE w = "ERROR_TEST" -> "error_test"
    [] w = "Error_Test" -> "error_test"
    [] w = "BUY" -> "buy"
    [] OTHER -> w

toLowerCase(str) == [i \in 1..Len(str) |-> LowerCase(str[i])]

\* String.prototype.includes
includes(str, sub) ==
  \E i \in 0..(Len(str) - Len(sub)) : SubSeq(str, i + 1, i + Len(sub)) = sub

\* !apiKey || apiKey.trim() === ''
ApiKeyEmpty(apiKey) == apiKey = <<>>
ApiKeyBlank(apiKey) == apiKey = <<>> \/ Trim(apiKey) = <<>>

\* the response parseTaskWithAI builds
mockedResponse(naturalLanguageInput) ==
  [title |-> <<"Parsed: ">> \o naturalLanguageInput,
   description |-> <<"This is a generated description for \"">> \o naturalLanguageInput
                     \o <<"\".">>,
   category |-> "",
   dueDate |-> <<>>]

\* parseTaskWithAI(apiKey, naturalLanguageInput) up to its throw or its await,
\* in a session where the hosted model would answer a request with reply
parseTaskWithAI(apiKey, naturalLanguageInput, reply) ==
  /\ parse.status # "pending"
  /\ parse' = IF ApiKeyBlank(apiKey)
              THEN [status |-> "rejected", apiKey |-> apiKey, input |-> naturalLanguageInput,
                    reply |-> reply, requested |-> FALSE, result |-> NoData,
                    error |-> MissingKeyError]
              ELSE [status |-> "pending", apiKey |-> apiKey, input |-> naturalLanguageInput,
                    reply |-> reply, requested |-> TRUE, result |-> NoData, error |-> ""]
  /\ ev' = Ev("parseTaskWithAI", 0, 0)
  /\ UNCHANGED <<appVars, dashVars, listVars, subVars, storeVars, writes, formVars,
                 provVars, panelVars, rulesVars>>

\* the simulated delay is over: the rest of the try block and the catch block
ParseSettled ==
  /\ parse.status = "pending"
  /\ parse' = IF includes(toLowerCase(parse.input), <<"error_test">>)
              THEN [parse EXCEPT !.status = "rejected", !.error = ParseFailedError]
              ELSE [parse EXCEPT !.status = "resolved",
                                 !.result = mockedResponse(parse.input)]
  /\ ev' = Ev("ParseSettled", 0, 0)
  /\ UNCHANGED <<appVars, dashVars, listVars, subVars, storeVars, writes, formVars,
                 provVars, panelVars, rulesVars>>

(* --------------------------- security rules ---------------------------- *)
\* field values of a document: a string, a number, or no such field
StringValue == [type |-> "string", v |-> "k"]
OtherString == [type |-> "string", v |-> "n"]
NumberValue == [type |-> "number", v |-> "1"]
NoField == [type |-> "undefined", v |-> ""]

\* a document of user_gemini_keys with its key field and any other field;
\* NoKeyDoc where there is no document
KeyDoc(key, other) == [exists |-> TRUE, key |-> key, other |-> other]
NoKeyDoc == [exists |-> FALSE, key |-> NoField, other |-> NoField]

\* no request has been decided
NoAccess == [method |-> "none", auth |-> Null, id |-> Null, data |-> NoKeyDoc, allowed |-> FALSE]

\* request.resource.data.diff(resource.data).affectedKeys()
affectedKeys(new, old) ==
  {f \in {"key", "other"} : (IF f = "key" THEN new.key ELSE new.other)
                             # (IF f = "key" THEN old.key ELSE old.other)}

\* `request.auth != null && request.auth.uid == userId`
SignedIn(auth, userId) == auth # Null
IsOwner(auth, userId) == auth # Null /\ auth = userId

\* the allow statements of match /user_gemini_keys/{userId}, for a request of
\* the method by the requester auth (Null when unauthenticated) on the document
\* userId: resource is the stored document, data is request.resource.data. The
\* match /{document=**} above it allows nothing
Allows(method, auth, userId, resource, data) ==
  \/ FALSE
  \/ method = "read" /\ IsOwner(auth, userId)
  \/ method = "create" /\ IsOwner(auth, userId) /\ data.key.type = "string"
  \/ /\ method = "update" /\ IsOwner(auth, userId) /\ data.key.type = "string"
     /\ affectedKeys(data, resource) \subseteq {"key"}
  \/ method = "delete" /\ IsOwner(auth, userId)

\* the method the rules see for a write: a write of a document that does not
\* exist is a create, a write of one that exists is an update
MethodOf(kind, resource) ==
  IF kind = "write" THEN (IF resource.exists THEN "update" ELSE "create") ELSE kind

\* the server decides the request of auth on the document userId and, when the
\* rules allow it, carries it out
RulesRequest(kind, auth, userId, data) ==
  LET resource == keyDocs[userId]
      method == MethodOf(kind, resource)
      ok == Allows(method, auth, userId, resource, data)
  IN /\ kind = "delete" => resource.exists
     /\ access' = [method |-> method, auth |-> auth, id |-> userId,
                   data |-> (IF kind = "write" THEN data ELSE NoKeyDoc), allowed |-> ok]
     /\ keyDocs' = IF ~ok \/ method = "read" THEN keyDocs
                   ELSE IF method = "delete" THEN [keyDocs EXCEPT ![userId] = NoKeyDoc]
                   ELSE [keyDocs EXCEPT ![userId] = data]
     /\ ev' = Ev("RulesRequest", 0, 0)
     /\ UNCHANGED <<appVars, dashVars, listVars, subVars, storeVars, writes, formVars,
                    provVars, panelVars, parse>>

(* ----------------------------- key settlement -------------------------- *)
\* what follows the settlement in the dashboard. The context functions catch
\* the store's error and return normally, so that handleSaveApiKey and
\* handleDeleteApiKey go on after their await whichever way the store call
\* went. With automatic batching (batched) the updates of the context function
\* and of the handler are committed together and the dashboard's effect on the
\* key status runs after them; without it the context's updates are rendered
\* first, the effect runs, and the handler's updates come last
KeyContinuation(o, batched) ==
  LET due == user \in Users /\ KeyStatusChanged
  IN IF o.live /\ o.op = "save"
     THEN /\ keyOpSuccessMessage' = KeySavedMessage
          /\ apiKeyInputValue' = <<>>
          /\ isSavingKey' = FALSE
          /\ keyOpError' = (IF ~batched /\ due THEN Null ELSE keyOpError)
          /\ keyEffectPending' = (batched /\ due)
          /\ UNCHANGED <<showUserSettings, isDeletingKey>>
     ELSE IF o.live /\ o.op = "delete"
     THEN /\ keyOpSuccessMessage' = KeyDeletedMessage
          /\ isDeletingKey' = FALSE
          /\ keyOpError' = (IF ~batched /\ due THEN Null ELSE keyOpError)
          /\ keyEffectPending' = (batched /\ due)
          /\ UNCHANGED <<showUserSettings, apiKeyInputValue, isSavingKey>>
     ELSE IF batched
     THEN /\ UNCHANGED <<showUserSettings, apiKeyInputValue, isSavingKey, isDeletingKey,
                         keyOpError, keyOpSuccessMessage>>
          /\ KeyEffectDue
     ELSE /\ keyOpError' = (IF due THEN Null ELSE keyOpError)
          /\ keyOpSuccessMessage' = (IF due THEN Null ELSE keyOpSuccessMessage)
          /\ keyEffectPending' = FALSE
          /\ UNCHANGED <<showUserSettings, apiKeyInputValue, isSavingKey, isDeletingKey>>

\* the message the context records for a failed operation
KeyFailure(op) ==
  CASE op = "fetch" -> FetchKeyError
    [] op = "save" -> SaveKeyError
    [] op = "delete" -> DeleteKeyError

\* the key the context holds after a failed operation
KeptKeyCleared(op, key) == NoKey
KeptKey(op, key) == IF op = "fetch" THEN NoKey ELSE key

\* what getUserApiKey returns for the stored value: data?.key || null
StoredKey(v) == IF v = NoKey \/ v = <<>> THEN NoKey ELSE v

\* the store call of the operation i in flight succeeds: the try block of the
\* context function and its finally
KeyResolved(i, batched) ==
  /\ i \in 1..Len(keyOps)
  /\ ~keyEffectPending
  /\ LET o == keyOps[i] IN
       /\ keyStore' = (CASE o.op = "fetch" -> keyStore
                         [] o.op = "save" -> [keyStore EXCEPT ![o.uid] = o.key]
                         [] o.op = "delete" -> [keyStore EXCEPT ![o.uid] = NoKey])
       /\ userApiKey' = (CASE o.op = "fetch" -> StoredKey(keyStore[o.uid])
                           [] o.op = "save" -> o.key
                           [] o.op = "delete" -> NoKey)
       /\ isApiKeyLoading' = FALSE
       /\ apiKeyError' = apiKeyError
       /\ keyOps' = Overlapped(Without(keyOps, i))
       /\ KeyContinuation(o, batched)
       /\ ev' = [op |-> "KeyResolved", a |-> 0, b |-> 0,
                 h |-> [o |-> o, key |-> userApiKey, error |-> apiKeyError]]
  /\ UNCHANGED <<parse, rulesVars>>
  /\ UNCHANGED <<appVars, dashVars, listVars, subVars, storeVars, writes, formVars>>

\* the store call of the operation i in flight fails: the catch block of the
\* context function and its finally
KeyRejected(i, batched) ==
  /\ i \in 1..Len(keyOps)
  /\ ~keyEffectPending
  /\ LET o == keyOps[i] IN
       /\ keyStore' = keyStore
       /\ userApiKey' = KeptKey(o.op, userApiKey)
       /\ isApiKeyLoading' = FALSE
       /\ apiKeyError' = KeyFailure(o.op)
       /\ keyOps' = Overlapped(Without(keyOps, i))
       /\ KeyContinuation(o, batched)
       /\ ev' = [op |-> "KeyRejected", a |-> 0, b |-> 0,
                 h |-> [o |-> o, key |-> userApiKey, error |-> apiKeyError]]
  /\ UNCHANGED <<parse, rulesVars>>
  /\ UNCHANGED <<appVars, dashVars, listVars, subVars, storeVars, writes, formVars>>

(* ----------------------------- settings panel -------------------------- *)
\* the dashboard's effect on [userApiKey, isGlobalApiKeyLoading]
KeyStatusEffect ==
  /\ keyEffectPending
  /\ keyOpError' = Null
  /\ keyOpSuccessMessage' = Null
  /\ keyEffectPending' = FALSE
  /\ ev' = Ev("KeyStatusEffect", 0, 0)
  /\ UNCHANGED <<parse, rulesVars>>
  /\ UNCHANGED <<appVars, dashVars, listVars, subVars, storeVars, writes, formVars,
                 provVars, showUserSettings, apiKeyInputValue, isSavingKey, isDeletingKey>>

\* the disabled attribute the panel's input and its two buttons share
KeyControlsBusy == isSavingKey \/ isDeletingKey \/ isApiKeyLoading

toggleUserSettings ==
  /\ Screen = "dashboard"
  /\ ~keyEffectPending
  /\ showUserSettings' = ~showUserSettings
  /\ IF showUserSettings
     THEN /\ apiKeyInputValue' = <<>>
          /\ keyOpError' = Null
          /\ keyOpSuccessMessage' = Null
     ELSE UNCHANGED <<apiKeyInputValue, keyOpError, keyOpSuccessMessage>>
  /\ ev' = Ev("toggleUserSettings", 0, 0)
  /\ UNCHANGED <<parse, rulesVars>>
  /\ UNCHANGED <<appVars, dashVars, listVars, subVars, storeVars, writes, formVars,
                 provVars, isSavingKey, isDeletingKey, keyEffectPending>>

\* onChange of the API key input
SetApiKeyInputValue(v) ==
  /\ Screen = "dashboard"
  /\ showUserSettings
  /\ ~keyEffectPending
  /\ ~KeyControlsBusy
  /\ apiKeyInputValue' = v
  /\ keyOpError' = Null
  /\ keyOpSuccessMessage' = Null
  /\ ev' = Ev("SetApiKeyInputValue", 0, 0)
  /\ UNCHANGED <<parse, rulesVars>>
  /\ UNCHANGED <<appVars, dashVars, listVars, subVars, storeVars, writes, formVars,
                 provVars, showUserSettings, isSavingKey, isDeletingKey, keyEffectPending>>

\* a context function for a save or a delete, up to its await
StartKeyOp(op, key) ==
  /\ Len(keyOps) < MaxKeyOps
  /\ isApiKeyLoading' = TRUE
  /\ apiKeyError' = Null
  /\ keyOps' = Append(Overlapped(keyOps), KeyOp(op, user, key, keyOps = <<>>))
  /\ UNCHANGED <<userApiKey, keyStore>>

\* handleSaveApiKey up to its await, for a submit of the panel's form
handleSaveApiKey ==
  /\ Screen = "dashboard"
  /\ showUserSettings
  /\ ~keyEffectPending
  /\ ~KeyControlsBusy
  /\ IF IsBlank(apiKeyInputValue)
     THEN UNCHANGED <<provVars, panelVars>>
     ELSE /\ isSavingKey' = TRUE
          /\ keyOpError' = Null
          /\ keyOpSuccessMessage' = Null
          /\ StartKeyOp("save", Trim(apiKeyInputValue))
          /\ KeyEffectDue
          /\ UNCHANGED <<showUserSettings, apiKeyInputValue, isDeletingKey>>
  /\ ev' = Ev("handleSaveApiKey", 0, 0)
  /\ UNCHANGED <<parse, rulesVars>>
  /\ UNCHANGED <<appVars, dashVars, listVars, subVars, storeVars, writes, formVars>>

\* handleDeleteApiKey up to its await, for a click on the delete button and
\* the user's answer to the confirmation prompt
handleDeleteApiKey(isConfirmed) ==
  /\ Screen = "dashboard"
  /\ showUserSettings
  /\ ~keyEffectPending
  /\ ~KeyControlsBusy
  /\ userApiKey \notin {NoKey, <<>>}
  /\ IF ~isConfirmed
     THEN UNCHANGED <<provVars, panelVars>>
     ELSE /\ isDeletingKey' = TRUE
          /\ keyOpError' = Null
          /\ keyOpSuccessMessage' = Null
          /\ StartKeyOp("delete", NoKey)
          /\ KeyEffectDue
          /\ UNCHANGED <<showUserSettings, apiKeyInputValue, isSavingKey>>
  /\ ev' = Ev("handleDeleteApiKey", IF isConfirmed THEN 1 ELSE 0, 0)
  /\ UNCHANGED <<parse, rulesVars>>
  /\ UNCHANGED <<appVars, dashVars, listVars, subVars, storeVars, writes, formVars>>

(* ---------------------------- specifications --------------------------- *)
\* most documents in the collections the live query is run over
MaxDocs == 2
\* most documents created while the subscriptions are exercised
MaxSubTasks == 1
\* most documents created through the form
MaxFormTasks == 2
\* most documents created while the AI fills in the form
MaxAiTasks == 1

U1 == AllUsers[1]
Tab1 == AllCategories[1]
\* a well-formed and a malformed due date
YMD == <<"2", "0", "2", "4", "-", "0", "8", "-", "1", "5">>
NotYMD == <<"t", "o", "m">>
\* titles typed into the form
Titles == {<<" ">>, <<" ", "a">>}
\* texts typed into the AI textarea
AiTexts == {<<" ">>, <<"x">>}
\* results of parseTaskWithAI
ParsedResults ==
  {[title |-> <<"t">>, description |-> <<>>, category |-> ALL, dueDate |-> YMD],
   [title |-> <<>>, description |-> <<"d">>, category |-> "", dueDate |-> NotYMD],
   [title |-> <<>>, description |-> <<>>, category |-> "", dueDate |-> <<>>]}
\* texts typed into the inline edit input
EditTexts == {<<" ">>, <<"a">>, <<"b", " ">>}

\* module initialisation of firebaseService: with the configuration missing
\* nothing is initialised; otherwise initializeApp, getAuth or getFirestore may throw
InitFirebase ==
  /\ config \in {"ok", "missing"}
  /\ authInit \in BOOLEAN
  /\ dbInit \in BOOLEAN
  /\ config = "missing" => ~authInit
  /\ ~authInit => ~dbInit

InitComponents ==
  /\ selectedCategory = ALL
  /\ filter = "all"
  /\ tasks = <<>>
  /\ isLoading = TRUE
  /\ error = Null
  /\ subHandle = NoId
  /\ deleting = {}
  /\ listeners = {}
  /\ subs = [i \in 1..MaxSubs |-> [created |-> FALSE, unsubCalls |-> 0]]
  /\ nextId = 1
  /\ writes = <<>>
  /\ taskText = <<>>
  /\ dueDate = <<>>
  /\ priority = "Medium"
  /\ formIsLoading = FALSE
  /\ formError = Null
  /\ aiTaskText = <<>>
  /\ isAiProcessing = FALSE
  /\ aiError = Null
  /\ aiCall = 0
  /\ userApiKey = NoKey
  /\ isApiKeyLoading = TRUE
  /\ apiKeyError = Null
  /\ keyOps = <<>>
  /\ showUserSettings = FALSE
  /\ apiKeyInputValue = <<>>
  /\ isSavingKey = FALSE
  /\ isDeletingKey = FALSE
  /\ keyOpError = Null
  /\ keyOpSuccessMessage = Null
  /\ keyEffectPending = FALSE
  /\ parse = ParseIdle
  /\ keyDocs = [u \in Users |-> NoKeyDoc]
  /\ access = NoAccess
  /\ ev = Ev("init", 0, 0)

\* the page has loaded and App has rendered once; the tasks collection is empty
Init ==
  /\ InitFirebase
  /\ appMounted = FALSE
  /\ user = Undefined
  /\ firebaseInitialized = FALSE
  /\ initializationError = Null
  /\ store = <<>>
  /\ keyStore = NoKeys
  /\ InitComponents

\* the fetch of the user's key has settled: the specifications that are not
\* about the key let it settle before the next event
KeySettled == keyOps = <<>>

\* Spec: App start, sign-in and sign-out, tab and filter changes, the live
\* query and its errors, over a collection that changes
Next ==
  \/ KeyResolved(1, TRUE)
  \/ /\ KeySettled
     /\ \/ AppEffect
        \/ \E u \in Users \cup {Null} : AuthStateChanged(u)
        \/ \E c \in TabsUsed : SelectCategory(c)
        \/ \E f \in TaskFilter : SetFilter(f)
        \/ \E l \in listeners : Snapshot(l)
        \/ \E l \in listeners : SnapshotError(l)
        \/ \E k \in 1..MaxTasks : handleToggleComplete(k)
        \/ (canAdd => Created < MaxSubTasks) /\ SubmitTask(<<"a">>)
        \/ CommitWrite

Spec == Init /\ [][Next]_vars

\* SpecOrder: one user fills a category and drags its tasks
NextOrder ==
  \/ KeyResolved(1, TRUE)
  \/ /\ KeySettled
     /\ \/ AppEffect
        \/ AuthStateChanged(U1)
        \/ SelectCategory(Tab1)
        \/ \E l \in listeners : Snapshot(l)
        \/ \E a \in 1..MaxTasks, o \in 0..MaxTasks : handleDragEnd(a, o)
        \/ SubmitTask(<<"a">>)
        \/ CommitWrite
        \/ RejectWrite

SpecOrder == Init /\ [][NextOrder]_vars

\* SpecQuery: the live query over every tasks collection of at most MaxDocs
\* documents that creations, edits, deletes and reorders can have left
\* behind, while one of the users toggles the completion of their tasks
DocChoices ==
  [userId : Users, category : TabsUsed \ {ALL}, completed : {FALSE}, position : {0, Epoch}]

StoreOf(f) ==
  [i \in DOMAIN f |->
     [id |-> i, userId |-> f[i].userId, text |-> <<"a">>, category |-> f[i].category,
      completed |-> f[i].completed, priority |-> "Medium", dueDate |-> <<>>,
      position |-> IF f[i].position = Epoch THEN Epoch + i ELSE f[i].position]]

QueryStores == {StoreOf(f) : f \in UNION {[1..n -> DocChoices] : n \in 0..MaxDocs}}

InitQuery ==
  /\ InitFirebase
  /\ appMounted = FALSE
  /\ user = Undefined
  /\ firebaseInitialized = FALSE
  /\ initializationError = Null
  /\ store \in QueryStores
  /\ keyStore = NoKeys
  /\ InitComponents

NextQuery ==
  \/ KeyResolved(1, TRUE)
  \/ /\ KeySettled
     /\ \/ AppEffect
        \/ AuthStateChanged(U1)
        \/ \E c \in TabsUsed : SelectCategory(c)
        \/ \E f \in TaskFilter : SetFilter(f)
        \/ \E l \in listeners : Snapshot(l)
        \/ \E k \in 1..MaxTasks : handleToggleComplete(k)
        \/ CommitWrite

SpecQuery == InitQuery /\ [][NextQuery]_vars

\* SpecForm: one user fills in and submits the task form
NextForm ==
  \/ KeyResolved(1, TRUE)
  \/ /\ KeySettled
     /\ \/ AppEffect
        \/ AuthStateChanged(U1)
        \/ \E c \in TabsUsed : SelectCategory(c)
        \/ \E t \in Titles : SetTaskText(t)
        \/ SetDueDate(YMD)
        \/ SetPriority("High")
        \/ (~IsBlank(taskText) /\ canAdd => Created < MaxFormTasks) /\ handleSubmit
        \/ CommitWrite
        \/ RejectWrite

SpecForm == Init /\ [][NextForm]_vars

\* keys the users have stored
KeyChoices == {NoKey, <<"k">>}
KeyStores == [Users -> KeyChoices]

\* as Init, in a session that follows one in which keys may have been stored
InitAi ==
  /\ InitFirebase
  /\ appMounted = FALSE
  /\ user = Undefined
  /\ firebaseInitialized = FALSE
  /\ initializationError = Null
  /\ store = <<>>
  /\ keyStore \in KeyStores
  /\ InitComponents

\* SpecAi: one user, with or without a stored key, types a title or has the AI
\* fill in the task form, and submits
NextAi ==
  \/ AppEffect
  \/ AuthStateChanged(U1)
  \/ \E c \in TabsUsed : SelectCategory(c)
  \/ SetTaskText(<<" ", "a">>)
  \/ \E t \in AiTexts : SetAiTaskText(t)
  \/ handleAiProcessClick
  \/ \E r \in ParsedResults : AiResolved(r)
  \/ AiRejected("quota")
  \/ (~IsBlank(taskText) /\ canAdd => Created < MaxAiTasks) /\ handleSubmit
  \/ CommitWrite
  \/ \E i \in 1..MaxKeyOps, b \in BOOLEAN : KeyResolved(i, b)
  \/ \E i \in 1..MaxKeyOps, b \in BOOLEAN : KeyRejected(i, b)

SpecAi == InitAi /\ [][NextAi]_vars

\* API keys, inputs and answers of the hosted model for parseTaskWithAI
ApiKeys == {<<>>, <<" ">>, <<"k">>, <<" ", "k">>}
Inputs == {<<>>, <<"BUY", " ", "milk">>, <<"an ", "ERROR_TEST", " case">>, <<"error_test">>}
JsonReply(t, c, d) ==
  [kind |-> "json", text |-> <<"{", "}">>, message |-> <<>>,
   data |-> [title |-> t, description |-> <<>>, category |-> c, dueDate |-> d]]
TextReply(text) == [kind |-> "text", text |-> text, message |-> <<>>, data |-> NoData]
ErrorReply(message) == [kind |-> "error", text |-> <<>>, message |-> message, data |-> NoData]
Replies ==
  {JsonReply(<<"t">>, AllCategories[1], YMD),
   JsonReply(<<"t">>, "RandomCategoryNotInEnum", YMD),
   JsonReply(<<"t">>, AllCategories[1], NotYMD),
   JsonReply(<<"t">>, ALL, <<>>),
   TextReply(<<"This is not JSON.">>),
   TextReply(<<>>),
   ErrorReply(<<"Some error about ", "API key not valid", " for project">>),
   ErrorReply(<<"permission denied", " or something like that">>),
   ErrorReply(<<"User ", "quota", " exceeded">>),
   ErrorReply(<<"SDK internal error">>)}

\* SpecParse: calls of parseTaskWithAI, one after the other
NextParse ==
  \/ \E k \in ApiKeys, t \in Inputs, r \in Replies : parseTaskWithAI(k, t, r)
  \/ ParseSettled

SpecParse == Init /\ [][NextParse]_vars

\* values typed into the API key input
KeyInputs == {<<" ">>, <<" ", "n">>}

\* SpecKey: users sign in and out, and save and delete their API key in the
\* settings panel, while the store accepts or refuses each operation
NextKey ==
  \/ AppEffect
  \/ \E u \in Users \cup {Null} : AuthStateChanged(u)
  \/ toggleUserSettings
  \/ \E v \in KeyInputs : SetApiKeyInputValue(v)
  \/ handleSaveApiKey
  \/ \E c \in BOOLEAN : handleDeleteApiKey(c)
  \/ \E i \in 1..MaxKeyOps, b \in BOOLEAN : KeyResolved(i, b)
  \/ \E i \in 1..MaxKeyOps, b \in BOOLEAN : KeyRejected(i, b)
  \/ KeyStatusEffect

SpecKey == InitAi /\ [][NextKey]_vars

\* most documents in the collections tasks are deleted from
MaxDelDocs == 2

\* the tasks collections of at most MaxDelDocs documents, of one user and category
DeleteStores ==
  {StoreOf(f) : f \in UNION {[1..n -> {d \in DocChoices : d.userId = U1 /\ d.category = Tab1}] : n \in 0..MaxDelDocs}}

\* as InitQuery, in a session that follows one in which keys may have been stored
InitDelete ==
  /\ InitFirebase
  /\ appMounted = FALSE
  /\ user = Undefined
  /\ firebaseInitialized = FALSE
  /\ initializationError = Null
  /\ store \in DeleteStores
  /\ keyStore \in KeyStores
  /\ InitComponents

\* SpecDelete: one user deletes tasks and the stored API key, answering the
\* confirmation prompts either way
NextDelete ==
  \/ AppEffect
  \/ \E u \in {U1, Null} : AuthStateChanged(u)
  \/ \E l \in listeners : Snapshot(l)
  \/ \E k \in 1..MaxTasks, c \in BOOLEAN : handleDelete(k, c)
  \/ CommitWrite
  \/ RejectWrite
  \/ toggleUserSettings
  \/ \E c \in BOOLEAN : handleDeleteApiKey(c)
  \/ \E i \in 1..MaxKeyOps, b \in BOOLEAN : KeyResolved(i, b)
  \/ \E i \in 1..MaxKeyOps, b \in BOOLEAN : KeyRejected(i, b)
  \/ KeyStatusEffect

SpecDelete == InitDelete /\ [][NextDelete]_vars

\* documents a requester may send with a write, well-formed or not
WrittenDocs ==
  {KeyDoc(k, o) : k \in {StringValue, OtherString, NumberValue, NoField},
                  o \in {NoField, NumberValue}}

\* SpecRules: any requester, signed in or not, sends reads, writes and deletes
\* of the API key documents to the server
NextRules ==
  \E kind \in {"read", "write", "delete"}, auth \in Users \cup {Null}, userId \in Users,
     data \in WrittenDocs :
    RulesRequest(kind, auth, userId, data)

SpecRules == Init /\ [][NextRules]_vars

\* most tasks a run of SpecList creates
MaxListTasks == 2

\* SpecList: one user creates tasks under the first tab, toggles and drags
\* them, changes tab and filter and signs out, while the writes succeed or fail
NextList ==
  \/ KeyResolved(1, TRUE)
  \/ /\ KeySettled
     /\ \/ AppEffect
        \/ \E u \in {U1, Null} : AuthStateChanged(u)
        \/ \E c \in TabsUsed : SelectCategory(c)
        \/ \E f \in TaskFilter : SetFilter(f)
        \/ \E l \in listeners : Snapshot(l)
        \/ \E a \in 1..MaxTasks, o \in 0..MaxTasks : handleDragEnd(a, o)
        \/ \E k \in 1..MaxTasks : handleToggleComplete(k)
        \/ (canAdd => selectedCategory = Tab1 /\ Created < MaxListTasks) /\ SubmitTask(<<"a">>)
        \/ CommitWrite
        \/ RejectWrite

SpecList == Init /\ [][NextList]_vars

\* SpecItem: one user creates tasks under one tab and toggles, edits, deletes
\* and drags them, while the writes succeed or fail
NextItem ==
  \/ KeyResolved(1, TRUE)
  \/ /\ KeySettled
     /\ \/ AppEffect
        \/ \E u \in {U1, Null} : AuthStateChanged(u)
        \/ SelectCategory(Tab1)
        \/ \E l \in listeners : Snapshot(l)
        \/ \E a \in 1..MaxTasks, o \in 0..MaxTasks : handleDragEnd(a, o)
        \/ \E k \in 1..MaxTasks : handleToggleComplete(k)
        \/ \E k \in 1..MaxTasks : handleDelete(k, TRUE)
        \/ \E k \in 1..MaxTasks : handleSaveEdit(k, <<"b", " ">>)
        \/ (canAdd => Created < MaxListTasks) /\ SubmitTask(<<"a">>)
        \/ CommitWrite
        \/ RejectWrite

SpecItem == Init /\ [][NextItem]_vars

\* results of parseTaskWithAI with white space around the title
TextResults ==
  {[title |-> <<" ">>, description |-> <<>>, category |-> "", dueDate |-> <<>>],
   [title |-> <<"t", " ">>, description |-> <<>>, category |-> "", dueDate |-> <<>>]}

\* SpecText: one user with a stored key submits titles typed or filled in by
\* the AI, and edits the tasks inline
NextText ==
  \/ KeyResolved(1, TRUE)
  \/ /\ KeySettled
     /\ \/ AppEffect
        \/ AuthStateChanged(U1)
        \/ SelectCategory(Tab1)
        \/ \E t \in Titles : SetTaskText(t)
        \/ SetAiTaskText(<<"x">>)
        \/ handleAiProcessClick
        \/ \E r \in TextResults : AiResolved(r)
        \/ (~IsBlank(taskText) /\ canAdd => Created < MaxListTasks) /\ handleSubmit
        \/ \E l \in listeners : Snapshot(l)
        \/ \E k \in 1..MaxTasks, t \in EditTexts : handleSaveEdit(k, t)
        \/ CommitWrite

SpecText == InitAi /\ [][NextText]_vars

\* SpecFrame: every event that TaskList and its items see, the item being the
\* first of the list, over writes that succeed
NextFrame ==
  \/ KeyResolved(1, TRUE)
  \/ /\ KeySettled
     /\ \/ AppEffect
        \/ \E u \in {U1, Null} : AuthStateChanged(u)
        \/ \E c \in {ALL, Tab1} : SelectCategory(c)
        \/ \E f \in {"all", "completed"} : SetFilter(f)
        \/ \E l \in listeners : Snapshot(l)
        \/ \E l \in listeners : SnapshotError(l)
        \/ \E a \in 1..MaxTasks, o \in 0..MaxTasks : handleDragEnd(a, o)
        \/ handleToggleComplete(1)
        \/ handleDelete(1, TRUE)
        \/ handleSaveEdit(1, <<"b", " ">>)
        \/ (canAdd => Created < MaxListTasks) /\ SubmitTask(<<"a">>)
        \/ CommitWrite

SpecFrame == Init /\ [][NextFrame]_vars

(* ------------------------------ properties ----------------------------- *)
\* one-based index of the item with the given id
IndexOf(arr, id) == CHOOSE k \in 1..Len(arr) : arr[k].id = id

\* the list with the element at index i removed and reinserted at index j
ListMove(arr, i, j) ==
  [k \in 1..Len(arr) |->
     IF k = j THEN arr[i]
     ELSE IF i < j /\ i <= k /\ k < j THEN arr[k + 1]
     ELSE IF j < i /\ j < k /\ k <= i THEN arr[k - 1]
     ELSE arr[k]]

\* the step appended exactly one write to the pipeline
OneMoreWrite == Len(writes') = Len(writes) + 1 /\ SubSeq(writes', 1, Len(writes)) = writes

\* C1: a drag that ends over a different item replaces the displayed list by
\* the list-move of the list displayed at that moment (the dragged item taken
\* out and put back at the index of the drop target) and issues exactly one
\* batched write that gives the item at every index k of the new list the
\* position k, for k = 0..N-1.
C1_Reorder ==
  [][ev'.op = "handleDragEnd" /\ ev'.b # NoId /\ ev'.a # ev'.b =>
       LET moved == ListMove(tasks, IndexOf(tasks, ev'.a), IndexOf(tasks, ev'.b))
           w == writes'[Len(writes')]
       IN /\ tasks' = moved
          /\ OneMoreWrite
          /\ w.op = "batch"
          /\ Len(w.updates) = Len(tasks)
          /\ \A k \in 1..Len(tasks) : w.updates[k] = [id |-> moved[k].id, position |-> k - 1]]_vars

\* the first of three items was dragged onto the last one
C1_Witness ==
  /\ ev.op = "handleDragEnd" /\ ev.a # ev.b /\ ev.b # NoId
  /\ Len(tasks) = 3
  /\ tasks[3].id = ev.a
  /\ tasks[3].position < tasks[1].position
  /\ tasks[1].position < tasks[2].position
  /\ writes # <<>> /\ writes[Len(writes)].op = "batch"

\* C2: a drag that ends over the dragged item itself, or over no item, issues
\* no write and leaves the displayed list as it was.
C2_NoReorder ==
  [][ev'.op = "handleDragEnd" /\ (ev'.b = NoId \/ ev'.a = ev'.b) =>
       writes' = writes /\ tasks' = tasks /\ store' = store]_vars

\* an item of a list of several was dropped on itself
C2_Witness ==
  /\ ev.op = "handleDragEnd" /\ ev.a = ev.b
  /\ Len(tasks) >= 2
  /\ writes = <<>>

\* C3: a snapshot or an error is only ever delivered to the callback of a
\* subscription whose unsubscribe function has not been called, and that is
\* the subscription the mounted list holds: a subscription that was
\* unsubscribed changes neither the list nor the loading flag.
C3_NoCallbackAfterUnsubscribe ==
  [][ev'.op \in {"Snapshot", "SnapshotError"} =>
       /\ subs[ev'.a].created
       /\ subs[ev'.a].unsubCalls = 0
       /\ ev'.a = subHandle]_vars

\* the collection changed under a query that had been unsubscribed
C3_Witness ==
  /\ ev.op = "CommitWrite"
  /\ Mounted /\ subHandle > 0
  /\ \E s \in 1..MaxSubs : s # subHandle /\ subs[s].unsubCalls = 1
  /\ \E i \in DOMAIN store : store[i].userId = user

\* the subscriptions of the mounted list
C4_Live ==
  /\ Mounted =>
       /\ Cardinality(listeners) <= 1
       /\ \A l \in listeners :
            l.id = subHandle /\ l.uid = user /\ l.category = selectedCategory /\ l.filter = filter
       /\ \A s \in 1..MaxSubs : subs[s].created =>
            subs[s].unsubCalls = (IF s = subHandle THEN 0 ELSE 1)
  /\ ~Mounted =>
       /\ listeners = {}
       /\ \A s \in 1..MaxSubs : subs[s].created => subs[s].unsubCalls = 1

\* C4: while the list is mounted there is at most one live subscription and it
\* is the one for the current user, category and filter; a change of any of
\* them unsubscribes the previous subscription in the step that creates the
\* new one; every subscription created is unsubscribed exactly once, at the
\* latest when the list is torn down.
C4_OneSubscription ==
  [][/\ C4_Live'
     /\ subHandle > 0 /\ subHandle' # subHandle =>
          /\ subs'[subHandle].unsubCalls = 1
          /\ \A l \in listeners' : l.id # subHandle]_vars

\* the list was torn down after its parameters had changed
C4_Witness ==
  /\ ~Mounted
  /\ ev.op = "AuthStateChanged"
  /\ subs[1].created /\ subs[1].unsubCalls = 1
  /\ subs[2].created /\ subs[2].unsubCalls = 1

\* C5: every list a subscription for (userId, category, filter) delivers holds
\* only documents of the collection that are owned by userId, are of that
\* category unless the category is All, are not completed when the filter is
\* active and are completed when the filter is completed, and holds them in
\* ascending order of position.
C5_Delivered ==
  [][ev'.op = "Snapshot" =>
       LET l == CHOOSE x \in listeners : x.id = ev'.a
       IN /\ \A k \in 1..Len(tasks') :
               /\ tasks'[k].id \in DOMAIN store /\ tasks'[k] = store[tasks'[k].id]
               /\ tasks'[k].userId = l.uid
               /\ l.category # ALL => tasks'[k].category = l.category
               /\ l.filter = "active" => tasks'[k].completed = FALSE
               /\ l.filter = "completed" => tasks'[k].completed = TRUE
          /\ \A j, k \in 1..Len(tasks') : j < k => tasks'[j].position <= tasks'[k].position]_vars

\* the completed filter delivered a task and held back an open one of the same user
C5_Witness ==
  /\ ev.op = "Snapshot"
  /\ filter = "completed"
  /\ Len(tasks) >= 1
  /\ \E i \in DOMAIN store : store[i].userId = user /\ ~store[i].completed

\* C6: when the live query reports an error the callback gets the empty list:
\* the list leaves its loading state and shows the empty view, and no new
\* subscription is made for the failed one; with Firestore not initialised
\* the mounted list shows the empty view and holds no subscription.
C6_ErrorEmpty ==
  [][/\ ev'.op = "SnapshotError" =>
          /\ tasks' = <<>> /\ ~isLoading' /\ EmptyView'
          /\ listeners' = {l \in listeners : l.id # ev'.a}
          /\ subs' = subs /\ subHandle' = subHandle
     /\ Mounted' /\ ~dbInit =>
          /\ EmptyView'
          /\ listeners' = {} /\ subs' = subs]_vars

\* the query of a list that has a matching task failed
C6_Witness ==
  /\ ev.op = "SnapshotError"
  /\ EmptyView
  /\ listeners = {}
  /\ \E i \in DOMAIN store : Matches(store[i], user, selectedCategory, filter)

\* C7: when the batched write of a reorder fails, the rejection reaches a
\* handler of the drag that issued it (it is not an unhandled rejection).
C7_FailureSurfaced ==
  ev.op = "RejectWrite" /\ ev.h = "handleDragEnd" => ev.a = 1

\* C8: with the configuration missing App shows the initialisation error
\* screen from the moment its effect has run, and never the login screen or
\* the dashboard.
C8_InitErrorScreen ==
  config = "missing" /\ appMounted => Screen = "initError"

\* a title of nothing but white space
IsWhiteSpace(text) == \A k \in 1..Len(text) : text[k] = " "

\* C9: a submit with an empty or white-space title issues no write and leaves
\* title, due date, priority, loading flag and error message as they were.
C9_BlankSubmit ==
  [][ev'.op = "handleSubmit" /\ IsWhiteSpace(taskText) =>
       /\ writes' = writes /\ store' = store
       /\ taskText' = taskText /\ dueDate' = dueDate /\ priority' = priority
       /\ formIsLoading' = formIsLoading /\ formError' = formError]_vars

\* a white-space title was submitted on a category tab with the form filled in
C9_Witness ==
  /\ ev.op = "handleSubmit"
  /\ taskText = <<" ">>
  /\ canAdd /\ dbInit
  /\ dueDate = YMD /\ priority = "High"
  /\ formError # Null

\* C10: no document of the collection and no write in flight has the category
\* All; a submit while the All tab is selected issues no write and changes
\* nothing of the form but the error, which becomes the request to select a
\* category tab when the title is not blank.
C10_NeverAll ==
  [][/\ \A i \in DOMAIN store' : store'[i].category \in TASK_CATEGORIES
     /\ \A k \in 1..Len(writes') :
          writes'[k].op = "add" => writes'[k].doc.category \in TASK_CATEGORIES
     /\ ev'.op = "handleSubmit" /\ selectedCategory = ALL =>
          /\ writes' = writes /\ store' = store
          /\ taskText' = taskText /\ dueDate' = dueDate /\ priority' = priority
          /\ formIsLoading' = formIsLoading
          /\ formError' = (IF IsWhiteSpace(taskText) THEN formError ELSE SelectCategoryError)]_vars

\* a title that carries the AI's suggestion of the category All was submitted
\* on the All tab after a task had been created
C10_Witness ==
  /\ ev.op = "handleSubmit"
  /\ selectedCategory = ALL
  /\ formError = SelectCategoryError
  /\ \E r \in ParsedResults : r.category = ALL /\ taskText = combinedTaskText(r)
  /\ DOMAIN store # {}
  /\ writes = <<>>

\* C11: while no API key is loaded parseTaskWithAI is never called and a click
\* on the AI control changes at most the AI error, to the missing-key message;
\* a submit of a non-blank title on a specific tab issues the same addTask
\* whether a key is loaded or not
C11_AiBlocked ==
  [][/\ aiCall' > aiCall => userApiKey \notin {NoKey, <<>>}
     /\ ev'.op = "handleAiProcessClick" /\ userApiKey \in {NoKey, <<>>} =>
          /\ aiCall' = aiCall /\ isAiProcessing' = isAiProcessing
          /\ taskText' = taskText /\ dueDate' = dueDate /\ formError' = formError
          /\ writes' = writes
          /\ IF IsWhiteSpace(aiTaskText)
             THEN aiError' = aiError
             ELSE aiError' = ApiKeyMissingError
     /\ ev'.op = "handleSubmit" /\ ~IsWhiteSpace(taskText) /\ selectedCategory # ALL
          /\ dbInit =>
          writes' = Append(writes, addTask(user, Trim(taskText), selectedCategory,
                                           [dueDate |-> dueDate, priority |-> priority]))]_vars

\* the fetch found no key, the click on the AI control was answered with the
\* missing-key message, and the typed title was submitted all the same
C11_Witness ==
  /\ ev.op = "handleSubmit"
  /\ userApiKey = NoKey /\ ~isApiKeyLoading /\ aiCall = 0
  /\ aiError = ApiKeyMissingError
  /\ writes # <<>> /\ writes[Len(writes)].op = "add"

\* a call of parseTaskWithAI with a usable key has settled
ParseDone == parse.status \in {"resolved", "rejected"} /\ Trim(parse.apiKey) # <<>>

\* the validation the service's tests describe: a category outside the stored
\* categories and a due date that is not YYYY-MM-DD are dropped
Sanitized(data) ==
  [data EXCEPT !.category = IF data.category \in TASK_CATEGORIES THEN data.category ELSE "",
               !.dueDate = IF IsYMD(data.dueDate) THEN data.dueDate ELSE <<>>]

\* C12: when the hosted model answers with a JSON object, parseTaskWithAI
\* resolves with that object, less a category that is no stored category and
\* less a due date that is not YYYY-MM-DD, every other field as given
C12_FieldByField ==
  ParseDone /\ parse.reply.kind = "json" =>
    parse.status = "resolved" /\ parse.result = Sanitized(parse.reply.data)

NotJsonError == "AI model response was not valid JSON. Please try rephrasing your request or check the AI's output format."
EmptyTextError == "AI model returned an empty text response. Please try again."

\* C13: an answer that is no JSON makes parseTaskWithAI reject with the
\* not-valid-JSON error, an empty answer with the empty-response error, and
\* the two differ from each other and from the generic failure
C13_JsonOrEmpty ==
  ParseDone /\ parse.reply.kind = "text" =>
    /\ parse.status = "rejected"
    /\ parse.error = (IF parse.reply.text = <<>> THEN EmptyTextError ELSE NotJsonError)
    /\ NotJsonError # EmptyTextError
    /\ ParseFailedError \notin {NotJsonError, EmptyTextError}

InvalidKeyError == "Invalid Gemini API Key. Please check your key in settings."
NotAuthorizedError == "Gemini API Key is not authorized, permission denied, or project billing may not be configured. Check API key, project settings, and ensure the 'Generative Language API' is enabled with billing."
QuotaError == "AI request quota exceeded. Please try again later or check your Gemini project quotas."

\* the user-facing error of an upstream failure with the message m
MappedError(m) ==
  IF includes(m, <<"API key not valid">>) THEN <<InvalidKeyError>>
  ELSE IF includes(m, <<"permission denied">>) THEN <<NotAuthorizedError>>
  ELSE IF includes(m, <<"quota">>) THEN <<QuotaError>>
  ELSE <<"Failed to process task with AI: ">> \o m

\* C14: when the request to the hosted model fails with the message m,
\* parseTaskWithAI rejects with the error m is mapped to by the substring it
\* contains, or with 'Failed to process task with AI: m'
C14_MappedBySubstring ==
  ParseDone /\ parse.reply.kind = "error" =>
    /\ parse.status = "rejected"
    /\ <<parse.error>> = MappedError(parse.reply.message)

\* C15: a call of parseTaskWithAI with an empty or whitespace-only key is
\* rejected with the missing-key message, which is not the generic failure,
\* and no request has been made
C15_MissingKey ==
  parse.status # "idle" /\ Trim(parse.apiKey) = <<>> =>
    /\ parse.status = "rejected"
    /\ parse.error = MissingKeyError
    /\ parse.error # ParseFailedError
    /\ ~parse.requested

\* a call with a key of one space was rejected, its input one that makes a
\* call with a usable key fail
C15_Witness ==
  /\ parse.status = "rejected"
  /\ parse.apiKey = <<" ">>
  /\ parse.input = <<"error_test">>
  /\ parse.error = MissingKeyError

\* C16: the step in which the signed-in user becomes null leaves the API-key
\* context with no key, not loading and without error, whatever it held before
C16_SignOutClears ==
  [][(user \in Users /\ user' \notin Users) =>
       (userApiKey' = NoKey /\ ~isApiKeyLoading' /\ apiKeyError' = Null)]_vars

\* the user signed out while the delete of the loaded key was in flight: the
\* context held a key and was loading, and holds none and is not loading
C16_Witness ==
  /\ ev.op = "AuthStateChanged" /\ user = Null
  /\ \E k \in 1..Len(keyOps) : keyOps[k].op = "delete" /\ ~keyOps[k].live
  /\ userApiKey = NoKey /\ ~isApiKeyLoading /\ apiKeyError = Null

\* C17: a fetch of the user's key that fails leaves the context with the
\* fetch error, no key and not loading; a fetch that succeeds leaves it with
\* the key stored for the user (none when none is stored), without error and
\* not loading
C17_FetchOutcome ==
  [][/\ (ev'.op = "KeyRejected" /\ ev'.h.o.op = "fetch") =>
          (apiKeyError' = FetchKeyError /\ userApiKey' = NoKey /\ ~isApiKeyLoading')
     /\ (ev'.op = "KeyResolved" /\ ev'.h.o.op = "fetch") =>
          /\ userApiKey' = keyStore[ev'.h.o.uid]
          /\ apiKeyError' = Null
          /\ ~isApiKeyLoading']_vars

\* C18: a save or a delete of the key that fails leaves the key of the context
\* as it was, records the failure message of the operation and ends the
\* loading; a save or a delete changes the key only when it succeeds, to the
\* saved key or to none
C18_FailureKeepsKey ==
  [][/\ (ev'.op = "KeyRejected" /\ ev'.h.o.op \in {"save", "delete"}) =>
          /\ userApiKey' = userApiKey
          /\ apiKeyError' = (IF ev'.h.o.op = "save" THEN SaveKeyError ELSE DeleteKeyError)
          /\ ~isApiKeyLoading'
     /\ (ev'.op \in {"handleSaveApiKey", "handleDeleteApiKey"}) => userApiKey' = userApiKey
     /\ (ev'.op = "KeyResolved" /\ ev'.h.o.op = "save") => userApiKey' = ev'.h.o.key
     /\ (ev'.op = "KeyResolved" /\ ev'.h.o.op = "delete") => userApiKey' = NoKey]_vars

\* the delete of the loaded key failed: the key is still loaded, with the
\* delete error
C18_Witness ==
  /\ ev.op = "KeyRejected" /\ ev.h.o.op = "delete"
  /\ userApiKey = <<"k">> /\ ev.h.key = <<"k">>
  /\ apiKeyError = DeleteKeyError /\ ~isApiKeyLoading

\* C19: in the open settings panel, after a save or a delete of the key that
\* failed in the store, the success message of the operation is not shown
C19_NoSuccessOnFailure ==
  (/\ ev.op = "KeyRejected" /\ ev.h.o.op \in {"save", "delete"}
   /\ user \in Users /\ showUserSettings) =>
    keyOpSuccessMessage \notin {KeySavedMessage, KeyDeletedMessage}

\* the deletes among the writes or the key operations in flight
Deletes(ops) == {k \in 1..Len(ops) : ops[k].op = "delete"}

\* C20: a delete of a task or of the API key is issued only by a step in which
\* the user confirmed the prompt of that delete, and a step in which the user
\* declined the prompt issues nothing and changes no deleting flag, no message
\* and no stored task or key
C20_ConfirmedDeletes ==
  [][/\ Cardinality(Deletes(writes')) > Cardinality(Deletes(writes)) =>
          (ev'.op = "handleDelete" /\ ev'.b = 1)
     /\ Cardinality(Deletes(keyOps')) > Cardinality(Deletes(keyOps)) =>
          (ev'.op = "handleDeleteApiKey" /\ ev'.a = 1)
     /\ (ev'.op = "handleDelete" /\ ev'.b = 0) =>
          /\ writes' = writes /\ store' = store
          /\ deleting' = deleting /\ error' = error
     /\ (ev'.op = "handleDeleteApiKey" /\ ev'.a = 0) =>
          /\ keyOps' = keyOps /\ keyStore' = keyStore /\ userApiKey' = userApiKey
          /\ isDeletingKey' = isDeletingKey /\ isApiKeyLoading' = isApiKeyLoading
          /\ keyOpError' = keyOpError /\ keyOpSuccessMessage' = keyOpSuccessMessage
          /\ apiKeyError' = apiKeyError]_vars

\* the user confirmed the delete of the API key and, while it was in flight,
\* declined the delete of a task, which is still stored and not deleting
C20_Witness ==
  /\ ev.op = "handleDelete" /\ ev.b = 0
  /\ ev.a \in DOMAIN store /\ ev.a \notin deleting
  /\ writes = <<>>
  /\ isDeletingKey /\ Deletes(keyOps) # {}

\* C21: the rules allow a read, create, update or delete of the key document
\* of a user only to a requester authenticated as that user, a create or an
\* update only of a key that is a string, an update only when nothing but the
\* key changes; so a document changes only by a request of its owner
C21_OwnerOnly ==
  [][/\ access'.allowed =>
          /\ access'.auth \in Users /\ access'.auth = access'.id
          /\ access'.method \in {"create", "update"} => access'.data.key.type = "string"
          /\ access'.method = "update" => access'.data.other = keyDocs[access'.id].other
     /\ \A u \in Users : keyDocs'[u] # keyDocs[u] => (access'.allowed /\ access'.auth = u)
     /\ (access'.auth = Null \/ access'.auth # access'.id) =>
          (~access'.allowed /\ keyDocs' = keyDocs)]_vars

\* a user's attempt to overwrite the stored key of another user was refused
C21_Witness ==
  /\ access.method = "update" /\ ~access.allowed
  /\ access.auth \in Users /\ access.auth # access.id
  /\ access.data.key = OtherString
  /\ keyDocs[access.id].exists /\ keyDocs[access.id].key = StringValue

\* C22: the failure of a store write started by a handler of the user
\* interface (create, toggle, edit, delete, reorder) is caught by that
\* handler: no rejection is left unhandled.
C22_FailuresCaught ==
  ev.op = "RejectWrite" => ev.a = 1

\* the store has stopped changing and every push has been delivered to the
\* subscription of the mounted list
Quiescent ==
  /\ Mounted /\ ~isLoading
  /\ writes = <<>>
  /\ \E l \in listeners : l.id = subHandle
  /\ \A l \in listeners : ~l.pend

\* the records of a list as a set
Records(arr) == {arr[k] : k \in 1..Len(arr)}

C24_FailureKeepsList ==
  [][ev'.op = "RejectWrite" =>
       /\ tasks' = tasks
       /\ isLoading' = isLoading
       /\ error' = error]_vars

\* the write of a reorder has failed and the list is still in the optimistic
\* order, which is not the order of its records' position fields
C24_Witness ==
  /\ ev.op = "RejectWrite" /\ ev.h = "handleDragEnd"
  /\ Len(tasks) = 2
  /\ tasks[2].position < tasks[1].position
  /\ tasks # QueryDocs(store, user, selectedCategory, filter)

\* C25 as stated: the in-memory list changes only in a step that delivers a
\* push of the store to the subscription or reorders the list optimistically;
\* creating, toggling, editing, deleting, changing the tab or the filter and
\* signing out leave it as it is.
C25_OnlyPushOrReorder ==
  [][tasks' # tasks => ev'.op \in {"Snapshot", "SnapshotError", "handleDragEnd"}]_vars

\* C25 amended: the in-memory list changes only in a step that delivers a
\* push of the store to the subscription, reorders the list optimistically,
\* or signs the user out, which discards the list with the TaskList that held
\* it; creating, toggling, editing, deleting and changing the tab or the
\* filter leave it as it is.
C25_OnlyPushReorderOrSignOut ==
  [][/\ tasks' # tasks =>
          \/ ev'.op \in {"Snapshot", "SnapshotError", "handleDragEnd"}
          \/ ev'.op = "AuthStateChanged" /\ Mounted /\ ~Mounted' /\ tasks' = <<>>
     /\ ev'.op \in {"handleSubmit", "handleToggleComplete", "handleSaveEdit", "handleDelete",
                     "SelectCategory", "SetFilter", "CommitWrite"} => tasks' = tasks]_vars

\* the tab has just been changed while the list showed two tasks, and the
\* list still holds them
C25_Witness ==
  /\ ev.op = "SelectCategory"
  /\ selectedCategory = ALL
  /\ isLoading
  /\ Len(tasks) = 2

\* C26: every stored task has a text that is not empty and has no white
\* space at either end, whatever was submitted, typed or filled in by the AI,
\* or saved by an inline edit.
C26_TextsTrimmed ==
  \A i \in DOMAIN store :
    /\ store[i].text # <<>>
    /\ ~IsSpace(store[i].text[1])
    /\ ~IsSpace(store[i].text[Len(store[i].text)])

\* a title filled in by the AI with a space after it and a text edited with
\* a space after it have been stored, and a blank edit has just been cancelled
C26_Witness ==
  /\ ev.op = "handleSaveEdit" /\ writes = <<>>
  /\ \E i, j \in DOMAIN store : store[i].text = <<"t">> /\ store[j].text = <<"b">>

\* C27: the key the context holds belongs to the user the provider is given:
\* it is none whenever no user is signed in, and otherwise none or the key
\* stored for that user.
C27_KeyOfCurrentUser ==
  /\ user \notin Users => userApiKey = NoKey
  /\ (user \in Users /\ userApiKey # NoKey) => userApiKey = StoredKey(keyStore[user])

\* C28: the context is loading whenever a fetch, save or delete of the key
\* is in flight, and is not loading once the provider is mounted and none is.
C28_LoadingWhileInFlight ==
  /\ keyOps # <<>> => isApiKeyLoading
  /\ (keyOps = <<>> /\ user # Undefined) => ~isApiKeyLoading

\* the ids of the tasks a batched write updates
BatchIds(w) == {w.updates[k].id : k \in 1..Len(w.updates)}

C30_DisplayedMatchSelection ==
  /\ (Mounted /\ ~isLoading) =>
       \A k \in 1..Len(tasks) : Matches(tasks[k], user, selectedCategory, filter)
  /\ (ev.op = "handleDragEnd" /\ Mounted) =>
       /\ ~isLoading
       /\ \A k \in 1..Len(tasks) : Matches(tasks[k], user, selectedCategory, filter)

\* the tab has been changed to one none of the listed tasks belongs to: the
\* tasks of the previous tab are still in memory, behind the loading indicator
C30_Witness ==
  /\ ev.op = "SelectCategory"
  /\ isLoading /\ ~Displayed
  /\ Len(tasks) = 2
  /\ \A k \in 1..Len(tasks) : ~Matches(tasks[k], user, selectedCategory, filter)

====
